---- MODULE Spec2Model ----
(***************************************************************************)
(* minilzo-rs: the safe wrapper (src/src/lib.rs) over the LZO1X-1 codec.   *)
(*                                                                         *)
(* The wrapper (compress, decompress, Error::from_code) is translated from *)
(* src/src/lib.rs.  The codec it calls through the FFI, lzo1x_1_compress   *)
(* and lzo1x_decompress_safe, is not part of src/; it is modelled from     *)
(* spec.md sections 4.1 and 4.2, with the LZO1X wire constants filling in  *)
(* the instruction layout the spec leaves open.                            *)
(*                                                                         *)
(* Bytes are the integers 0..255.  Sequences are 1-based, so a cursor      *)
(* value c means "c bytes consumed/produced"; the next byte is at c + 1.   *)
(***************************************************************************)
EXTENDS Integers, Sequences, FiniteSets, TLC

(***************************************************************************)
(* Bounds of the model.                                                    *)
(***************************************************************************)
\* longest input enumerated exhaustively over InBytes
MaxInLen == 11
\* longest byte stream enumerated exhaustively over StreamBytes
MaxStreamLen == 4
\* largest expected_length tried with an enumerated stream
MaxNewLen == 3
\* length of the all-zero buffer (the tests use 128 KiB; scaled down)
ZeroRunLen == 300
\* error codes tried with from_code: -CodeSpan .. CodeSpan
CodeSpan == 101

(***************************************************************************)
(* Wire-format constants of LZO1X (spec.md 4.1, "Instruction encoding").   *)
(***************************************************************************)
M2_MIN_LEN == 3
M2_MAX_LEN == 8
M2_MAX_OFFSET == 2048
M3_MAX_LEN == 33
M3_MAX_OFFSET == 16384
M4_MAX_LEN == 9
M3_MARKER == 32
M4_MARKER == 16
\* a first literal run of up to this many bytes is tagged 17 + length
MaxFirstRun == 238
\* return codes of the codec
LZO_E_OK == 0
LZO_E_INPUT_OVERRUN == -4
LZO_E_OUTPUT_OVERRUN == -5
LZO_E_LOOKBEHIND_OVERRUN == -6
LZO_E_INPUT_NOT_CONSUMED == -8
LZO_E_OUTPUT_NOT_CONSUMED == -12

LZO_BYTE(x) == x % 256

Min(a, b) == IF a < b THEN a ELSE b
Max(a, b) == IF a > b THEN a ELSE b

(***************************************************************************)
(* Error and Error::from_code (lib.rs 23-59).                              *)
(***************************************************************************)
ErrorKinds ==
    { "Error", "OutOfMemory", "NotCompressible", "InputOverrun",
      "OutputOverrun", "LookbehindOverrun", "EOFNotFound",
      "InputNotConsumed", "NotYetImplemented", "InvalidArgument",
      "InvalidAlignment", "OutputNotConsumed", "InternalError" }

\* mutant: the arm for -99 is missing
from_code_no99(code) ==
    CASE code = -1 -> "Error"
      [] code = -2 -> "OutOfMemory"
      [] code = -3 -> "NotCompressible"
      [] code = -4 -> "InputOverrun"
      [] code = -5 -> "OutputOverrun"
      [] code = -6 -> "LookbehindOverrun"
      [] code = -7 -> "EOFNotFound"
      [] code = -8 -> "InputNotConsumed"
      [] code = -9 -> "NotYetImplemented"
      [] code = -10 -> "InvalidArgument"
      [] code = -11 -> "InvalidAlignment"
      [] code = -12 -> "OutputNotConsumed"
      [] OTHER -> "Error"

\* mutant: the arms for -4 and -5 are swapped
from_code_swap45(code) ==
    CASE code = -5 -> "InputOverrun"
      [] code = -4 -> "OutputOverrun"
      [] OTHER -> from_code_no99(code)

\* mutant: the arm for -6 is missing
from_code_no6(code) ==
    CASE code = -6 -> "Error"
      [] code = -99 -> "InternalError"
      [] OTHER -> from_code_no99(code)

from_code(code) ==
    CASE code = -1 -> "Error"
      [] code = -2 -> "OutOfMemory"
      [] code = -3 -> "NotCompressible"
      [] code = -4 -> "InputOverrun"
      [] code = -5 -> "OutputOverrun"
      [] code = -6 -> "LookbehindOverrun"
      [] code = -7 -> "EOFNotFound"
      [] code = -8 -> "InputNotConsumed"
      [] code = -9 -> "NotYetImplemented"
      [] code = -10 -> "InvalidArgument"
      [] code = -11 -> "InvalidAlignment"
      [] code = -12 -> "OutputNotConsumed"
      [] code = -99 -> "InternalError"
      [] OTHER -> "Error"

\* Result<Vec<u8>, Error>
Ok(data) == [ok |-> TRUE, err |-> "None", data |-> data]
Err(kind) == [ok |-> FALSE, err |-> kind, data |-> << >>]
NoResult == [ok |-> FALSE, err |-> "None", data |-> << >>]

(***************************************************************************)
(* Encoder: lzo1x_1_compress, modelled from spec.md 4.1.                   *)
(***************************************************************************)
\* length extension: a run of zero bytes, 255 each, then the remainder
RECURSIVE LenExt(_)
LenExt(tt) == IF tt > 255 THEN << 0 >> \o LenExt(tt - 255) ELSE << tt >>

\* the match instruction for (distance m_off, length m_len), smallest form
EmitMatch(m_off, m_len) ==
    IF m_len <= M2_MAX_LEN /\ m_off <= M2_MAX_OFFSET
    THEN LET o == m_off - 1
         IN  << LZO_BYTE((m_len - 1) * 32 + (o % 8) * 4), LZO_BYTE(o \div 8) >>
    ELSE IF m_off <= M3_MAX_OFFSET
    THEN LET o == m_off - 1
         IN  (IF m_len <= M3_MAX_LEN
              THEN << LZO_BYTE(M3_MARKER + (m_len - 2)) >>
              ELSE << M3_MARKER >> \o LenExt(m_len - M3_MAX_LEN))
             \o << LZO_BYTE(o * 4), LZO_BYTE(o \div 64) >>
    ELSE LET o == m_off - M3_MAX_OFFSET
             hi == ((o \div 16384) % 2) * 8
         IN  (IF m_len <= M4_MAX_LEN
              THEN << LZO_BYTE(M4_MARKER + hi + (m_len - 2)) >>
              ELSE << LZO_BYTE(M4_MARKER + hi) >> \o LenExt(m_len - M4_MAX_LEN))
             \o << LZO_BYTE(o * 4), LZO_BYTE(o \div 64) >>

\* out followed by the literal run lits: length packed into the preceding
\* match's spare bits when it is at most 3, else a tag or an escape byte
FlushLiterals(out, lits) ==
    LET tl == Len(lits)
    IN  IF tl = 0 THEN out
        ELSE IF out = << >> /\ tl <= MaxFirstRun
        THEN << 17 + tl >> \o lits
        ELSE IF tl <= 3
        THEN [out EXCEPT ![Len(out) - 1] = @ + tl] \o lits
        ELSE IF tl <= 18
        THEN out \o << tl - 3 >> \o lits
        ELSE out \o << 0 >> \o LenExt(tl - 18) \o lits

\* the end-of-stream instruction
EndOfStream == << M4_MARKER + 1, 0, 0 >>

\* the most recent position before q whose 4 bytes equal those at q (0: none)
Candidate(B, q) ==
    IF q + 3 > Len(B) THEN 0
    ELSE LET hits == { p \in 1 .. (q - 1) :
                         \A i \in 0 .. 3 : B[p + i] = B[q + i] }
         IN  IF hits = {} THEN 0
             ELSE CHOOSE p \in hits : \A p2 \in hits : p2 <= p

\* the match at q against p, extended byte by byte within the buffer: the
\* count of equal bytes before the first difference or the end of B
MatchLen(B, p, q) ==
    CHOOSE m \in 0 .. (Len(B) - q + 1) :
        /\ \A i \in 0 .. (m - 1) : B[p + i] = B[q + i]
        /\ (q + m > Len(B) \/ B[p + m] # B[q + m])

\* a match is taken when it is long enough and cheaper than its literals
AcceptMatch(m_off, m_len) ==
    m_len >= M2_MIN_LEN /\ Len(EmitMatch(m_off, m_len)) < m_len

\* whether the encoder takes a match at position q
MatchAt(B, q) ==
    LET p == Candidate(B, q)
    IN  p # 0 /\ AcceptMatch(q - p, MatchLen(B, p, q))

\* ii: the start of the pending literal run.  Positions without a match
\* join the literal run one byte at a time, so the scan stops at the first
\* position from ii on where a match is taken
RECURSIVE EncodeFrom(_, _, _)
EncodeFrom(B, ii, out) ==
    LET stops == { q \in ii .. Len(B) : MatchAt(B, q) }
    IN  IF stops = {}
        THEN FlushLiterals(out, SubSeq(B, ii, Len(B))) \o EndOfStream
        ELSE LET ip == CHOOSE q \in stops : \A q2 \in stops : q <= q2
                 p == Candidate(B, ip)
                 m == MatchLen(B, p, ip)
             IN  EncodeFrom(B, ip + m,
                    FlushLiterals(out, SubSeq(B, ii, ip - 1))
                       \o EmitMatch(ip - p, m))

\* the codec call: the stream written for the first in_len bytes of in, and
\* the return code
lzo1x_1_compress(in, in_len) ==
    [r |-> LZO_E_OK, out |-> EncodeFrom(SubSeq(in, 1, in_len), 1, << >>)]

(***************************************************************************)
(* compress (lib.rs 77-105).                                               *)
(***************************************************************************)
\* mutant: one byte short
CompressInLen_short(indata) == Max(Len(indata) - 1, 0)

CompressInLen(indata) == Len(indata)

\* mutant: the slack for the prefix and the end marker is dropped
CompressOutCap_noslack(inlen) == inlen + inlen \div 16

CompressOutCap(inlen) == inlen + inlen \div 16 + 64 + 3

\* mutant: the comparison is inverted
NotShorter_inverted(outlen, inlen) == outlen < inlen

\* lib.rs 95
NotShorter(outlen, inlen) == outlen > inlen

\* Vec::set_len(k) on a buffer holding buf; bytes never written are -1
SetLen(buf, k) ==
    [i \in 1 .. k |-> IF i <= Len(buf) THEN buf[i] ELSE -1]

\* lib.rs 94-103: r and outlen as read after the call, buf as written
CompressResult(r, outlen, inlen, buf) ==
    IF r = 0
    THEN IF NotShorter(outlen, inlen)
         THEN Err("NotCompressible")
         ELSE Ok(SetLen(buf, outlen))
    ELSE Err(from_code(r))

\* outlen is an immutable local the codec writes through a cast pointer
\* (lib.rs 83, 91): the build either reloads it after the call or keeps the
\* value it computed
ReadBack(reload, original, written) == IF reload THEN written ELSE original

compress(indata, reload) ==
    LET inlen == CompressInLen(indata)
        cap == CompressOutCap(inlen)
        call == lzo1x_1_compress(indata, inlen)
        outlen == ReadBack(reload, cap, Len(call.out))
    IN  CompressResult(call.r, outlen, inlen, call.out)

(***************************************************************************)
(* decompress (lib.rs 107-126): what it hands to the codec, and its result *)
(***************************************************************************)
\* mutant: one byte too many
DecompressInLen_long(indata) == Len(indata) + 1

DecompressInLen(indata) == Len(indata)

\* mutant: the capacity passed is one more than allocated
DecompressOutCap_long(n) == n + 1

DecompressOutCap(n) == n

\* mutant: the return code is ignored
DecompressResult_unchecked(rc, n, buf) == Ok(SetLen(buf, n))

\* lib.rs 119-124: rc and newlen as read after the call, buf as written
DecompressResult(rc, n, buf) ==
    IF rc = 0 THEN Ok(SetLen(buf, n)) ELSE Err(from_code(rc))

(***************************************************************************)
(* Inputs of the model.                                                    *)
(***************************************************************************)
InBytes == {0, 1}
StreamBytes == {0, 1, 16, 17, 18, 21, 32, 64}

SeqsUpTo(S, n) == UNION { [1 .. k -> S] : k \in 0 .. n }

\* lib.rs 136
Foo == << 102, 111, 111 >>
\* lib.rs 141, 150: an all-zero buffer
ZeroRun == [i \in 1 .. ZeroRunLen |-> 0]
\* lib.rs 177
Alice ==
    << 13, 10, 13, 10, 13, 10, 13, 10, 32, 32, 32, 32, 32, 32, 32, 32, 32,
       32, 32, 32, 32, 32, 32, 32, 65, 76, 73, 67, 69, 39, 83, 32, 65, 68,
       86, 69, 78, 84, 85, 82, 69, 83, 32, 73, 78, 32, 87, 79, 78, 68, 69,
       82, 76, 65, 78, 68, 13, 10 >>
\* "abcdeabcdeabc0123456789ABCDEFGHIJK": one 8-byte match, long literal tail
LongTail ==
    << 97, 98, 99, 100, 101, 97, 98, 99, 100, 101, 97, 98, 99, 48, 49, 50,
       51, 52, 53, 54, 55, 56, 57, 65, 66, 67, 68, 69, 70, 71, 72, 73, 74,
       75 >>
\* 0, 1, ..., 239 then 0 .. 8 again: a first literal run above MaxFirstRun
LongRun == [i \in 1 .. 249 |-> IF i <= 240 THEN i - 1 ELSE i - 241]

Vectors == { Foo, ZeroRun, Alice, LongTail, LongRun }
Inputs == SeqsUpTo(InBytes, MaxInLen) \cup Vectors
Streams == SeqsUpTo(StreamBytes, MaxStreamLen)
Codes == (0 - CodeSpan) .. CodeSpan
ListedCodes == (-12 .. -1) \cup {-99}

(***************************************************************************)
(* State.                                                                  *)
(***************************************************************************)
VARIABLES
    pc,       \* where the caller or the decoder stands
    src,      \* compress: indata
    cstream,  \* compress: what the codec wrote into outdata
    cres,     \* compress: the Result returned
    mode,     \* how the decompress input was obtained
    indata,   \* decompress: indata
    newlen,   \* decompress: newlen
    ip,       \* decoder: input cursor
    outdata,  \* decoder: output produced so far (its length is the cursor)
    state,    \* decoder: 0 after a match, 1..3 after that many trailing
              \*          literals, 4 after a literal run
    form,     \* decoder: the instruction being parsed
    t,        \* decoder: run or match length of the instruction
    nstate,   \* decoder: state once the pending literal copy is done
    dist,     \* decoder: match distance (partial until the distance is read)
    trail,    \* decoder: literals packed into the match instruction
    r,        \* the codec's return code
    dres,     \* decompress: the Result returned
    maxIn,    \* highest input index read by the decoder (0: none)
    minOut,   \* lowest output index read by the decoder (1: none below)
    maxOut,   \* highest output index read or written by the decoder
    lbSeen,   \* a match whose distance exceeds the output cursor was parsed
    eosShort, \* the end marker was reached with the cursor below newlen
    code,     \* from_code: the code applied
    kind,     \* from_code: the kind returned
    code2,    \* from_code: a second, listed code
    kind2,    \* from_code: its kind
    cprobe,   \* compress's result for codec return code `code`
    dprobe    \* decompress's result for codec return code `code`

callVars == << src, cstream, cres >>
argVars == << mode, indata, newlen >>
decVars == << ip, outdata, state, form, t, nstate, dist, trail >>
ghostVars == << maxIn, minOut, maxOut, lbSeen, eosShort >>
codeVars == << code, kind, code2, kind2, cprobe, dprobe >>
vars == << pc, callVars, argVars, decVars, r, dres, ghostVars, codeVars >>

Init ==
    /\ pc = "start"
    /\ src = << >> /\ cstream = << >> /\ cres = NoResult
    /\ mode = "none" /\ indata = << >> /\ newlen = 0
    /\ ip = 0 /\ outdata = << >> /\ state = 0 /\ form = "none"
    /\ t = 0 /\ nstate = 0 /\ dist = 0 /\ trail = 0
    /\ r = 0 /\ dres = NoResult
    /\ maxIn = 0 /\ minOut = 1 /\ maxOut = 0
    /\ lbSeen = FALSE /\ eosShort = FALSE
    /\ code = 0 /\ kind = "None" /\ code2 = 0 /\ kind2 = "None"
    /\ cprobe = NoResult /\ dprobe = NoResult

(***************************************************************************)
(* Calls.                                                                  *)
(***************************************************************************)
\* compress(indata), lib.rs 77-105
CallCompress ==
    /\ pc = "start"
    /\ \E B \in Inputs, reload \in BOOLEAN :
          /\ src' = B
          /\ cstream' = lzo1x_1_compress(B, CompressInLen(B)).out
          /\ cres' = compress(B, reload)
    /\ pc' = "compressed"
    /\ UNCHANGED << argVars, decVars, r, dres, ghostVars, codeVars >>

\* decompress(indata, newlen) entered, lib.rs 107-117
Enter(S, n, how) ==
    /\ indata' = S /\ newlen' = n /\ mode' = how
    /\ ip' = 0 /\ outdata' = << >> /\ state' = 0 /\ form' = "none"
    /\ t' = 0 /\ nstate' = 0 /\ dist' = 0 /\ trail' = 0
    /\ r' = 0 /\ dres' = NoResult
    /\ maxIn' = 0 /\ minOut' = 1 /\ maxOut' = 0
    /\ lbSeen' = FALSE /\ eosShort' = FALSE
    /\ pc' = "first"
    /\ UNCHANGED << callVars, codeVars >>

\* the stream compress returned, whole or cut at k, given back to decompress
DecompressStored ==
    /\ pc = "compressed" /\ cres.ok
    /\ \E k \in 0 .. Len(cres.data) :
          IF k = Len(cres.data)
          THEN \E n \in 0 .. (Len(src) + 1) : Enter(cres.data, n, "full")
          ELSE Enter(SubSeq(cres.data, 1, k), Len(src), "prefix")

\* the stream compress returned with one byte overwritten
DecompressCorrupt ==
    /\ pc = "compressed" /\ cres.ok
    /\ \E j \in 1 .. Len(cres.data), b \in StreamBytes :
          /\ b # cres.data[j]
          /\ Enter([cres.data EXCEPT ![j] = b], Len(src), "corrupt")

\* decompress on an arbitrary stream and length
DecompressAny ==
    /\ pc = "start"
    /\ \E S \in Streams, n \in 0 .. MaxNewLen : Enter(S, n, "any")

(***************************************************************************)
(* Decoder: lzo1x_decompress_safe, modelled from spec.md 4.2.              *)
(***************************************************************************)
\* what the wrapper passes (lib.rs 108-116)
InLen == DecompressInLen(indata)
OutCap == DecompressOutCap(newlen)

\* the values a read outside indata may yield
OobBytes == IF InLen > Len(indata) THEN StreamBytes ELSE {0}
Peek(i, oob) == IF i \in 1 .. Len(indata) THEN indata[i] ELSE oob

Fail(rc) ==
    /\ r' = rc
    /\ pc' = "ret"

\* the first byte: above 17 it is a literal run of (byte - 17)
DecFirst ==
    /\ pc = "first"
    /\ IF ip + 1 > InLen
       THEN /\ Fail(LZO_E_INPUT_OVERRUN)
            /\ UNCHANGED << decVars, ghostVars >>
       ELSE \E oob \in OobBytes :
            LET b == Peek(ip + 1, oob)
            IN  /\ maxIn' = Max(maxIn, ip + 1)
                /\ IF b > 17
                   THEN /\ ip' = ip + 1
                        /\ t' = b - 17
                        /\ nstate' = IF b - 17 < 4 THEN b - 17 ELSE 4
                        /\ form' = "lit"
                        /\ pc' = "lit"
                   ELSE /\ pc' = "tag"
                        /\ UNCHANGED << ip, t, nstate, form >>
                /\ UNCHANGED << outdata, state, dist, trail, r,
                                minOut, maxOut, lbSeen, eosShort >>
    /\ UNCHANGED << callVars, argVars, dres, codeVars >>

\* the tag byte, classified by its leading bits and the state
DecTag ==
    /\ pc = "tag"
    /\ IF ip + 1 > InLen
       THEN /\ Fail(LZO_E_INPUT_OVERRUN)
            /\ UNCHANGED << decVars, ghostVars >>
       ELSE \E oob \in OobBytes :
            LET b == Peek(ip + 1, oob)
            IN  /\ maxIn' = Max(maxIn, ip + 1)
                /\ ip' = ip + 1
                /\ IF b >= 64
                   THEN /\ form' = "M2"
                        /\ t' = (b \div 32) + 1
                        /\ dist' = 1 + ((b \div 4) % 8)
                        /\ trail' = b % 4
                        /\ pc' = "dist"
                   ELSE IF b >= M3_MARKER
                   THEN /\ form' = "M3"
                        /\ t' = IF b % 32 = 0 THEN 31 + 2 ELSE (b % 32) + 2
                        /\ dist' = 1
                        /\ trail' = 0
                        /\ pc' = IF b % 32 = 0 THEN "ext" ELSE "dist"
                   ELSE IF b >= M4_MARKER
                   THEN /\ form' = "M4"
                        /\ t' = IF b % 8 = 0 THEN 7 + 2 ELSE (b % 8) + 2
                        /\ dist' = ((b \div 8) % 2) * 16384
                        /\ trail' = 0
                        /\ pc' = IF b % 8 = 0 THEN "ext" ELSE "dist"
                   ELSE IF state = 0
                   THEN /\ form' = "lit"
                        /\ t' = IF b = 0 THEN 15 + 3 ELSE b + 3
                        /\ pc' = IF b = 0 THEN "ext" ELSE "lit"
                        /\ UNCHANGED << dist, trail >>
                   ELSE IF state = 4
                   THEN /\ form' = "M1b"
                        /\ t' = 3
                        /\ dist' = 1 + M2_MAX_OFFSET + (b \div 4)
                        /\ trail' = b % 4
                        /\ pc' = "dist"
                   ELSE /\ form' = "M1a"
                        /\ t' = 2
                        /\ dist' = 1 + (b \div 4)
                        /\ trail' = b % 4
                        /\ pc' = "dist"
                /\ nstate' = 4
                /\ UNCHANGED << outdata, state, r,
                                minOut, maxOut, lbSeen, eosShort >>
    /\ UNCHANGED << callVars, argVars, dres, codeVars >>

\* one byte of a length extension: a zero byte adds 255, another ends it
DecExt ==
    /\ pc = "ext"
    /\ IF ip + 1 > InLen
       THEN /\ Fail(LZO_E_INPUT_OVERRUN)
            /\ UNCHANGED << decVars, ghostVars >>
       ELSE \E oob \in OobBytes :
            LET b == Peek(ip + 1, oob)
            IN  /\ maxIn' = Max(maxIn, ip + 1)
                /\ ip' = ip + 1
                /\ t' = IF b = 0 THEN t + 255 ELSE t + b
                /\ pc' = IF b = 0 THEN "ext"
                         ELSE IF form = "lit" THEN "lit" ELSE "dist"
                /\ UNCHANGED << outdata, state, form, nstate, dist, trail, r,
                                minOut, maxOut, lbSeen, eosShort >>
    /\ UNCHANGED << callVars, argVars, dres, codeVars >>

\* a literal run: t bytes from the input cursor to the output cursor
DecLit ==
    /\ pc = "lit"
    /\ IF ip + t > InLen
       THEN /\ Fail(LZO_E_INPUT_OVERRUN)
            /\ UNCHANGED << decVars, ghostVars >>
       ELSE IF Len(outdata) + t > OutCap
       THEN /\ Fail(LZO_E_OUTPUT_OVERRUN)
            /\ UNCHANGED << decVars, ghostVars >>
       ELSE \E oob \in OobBytes :
            /\ outdata' = outdata \o [i \in 1 .. t |-> Peek(ip + i, oob)]
            /\ ip' = ip + t
            /\ maxIn' = Max(maxIn, ip + t)
            /\ maxOut' = Max(maxOut, Len(outdata) + t)
            /\ state' = nstate
            /\ pc' = "tag"
            /\ UNCHANGED << form, t, nstate, dist, trail, r,
                            minOut, lbSeen, eosShort >>
    /\ UNCHANGED << callVars, argVars, dres, codeVars >>

\* the distance field; the end marker is an M4 whose distance field is 0
DecDist ==
    /\ pc = "dist"
    /\ LET need == IF form \in {"M3", "M4"} THEN 2 ELSE 1
       IN  IF ip + need > InLen
           THEN /\ Fail(LZO_E_INPUT_OVERRUN)
                /\ UNCHANGED << decVars, ghostVars >>
           ELSE \E oob \in OobBytes :
                LET b0 == Peek(ip + 1, oob)
                    b1 == Peek(ip + 2, oob)
                    d == CASE form = "M2" -> dist + b0 * 8
                           [] form \in {"M1a", "M1b"} -> dist + b0 * 4
                           [] OTHER -> dist + (b0 \div 4) + b1 * 64
                    dd == IF form = "M4" THEN d + M3_MAX_OFFSET ELSE d
                    tr == IF need = 2 THEN b0 % 4 ELSE trail
                IN  /\ ip' = ip + need
                    /\ maxIn' = Max(maxIn, ip + need)
                    /\ dist' = dd
                    /\ trail' = tr
                    /\ lbSeen' = (~(form = "M4" /\ d = 0) /\ dd > Len(outdata))
                    /\ IF form = "M4" /\ d = 0
                       THEN /\ pc' = "eos"
                            /\ UNCHANGED r
                       ELSE IF dd > Len(outdata)
                       THEN Fail(LZO_E_LOOKBEHIND_OVERRUN)
                       ELSE IF Len(outdata) + t > OutCap
                       THEN Fail(LZO_E_OUTPUT_OVERRUN)
                       ELSE /\ pc' = "copy"
                            /\ UNCHANGED r
                    /\ UNCHANGED << outdata, state, form, t, nstate,
                                    minOut, maxOut, eosShort >>
    /\ UNCHANGED << callVars, argVars, dres, codeVars >>

\* len bytes copied forward one at a time from distance d behind the cursor;
\* a byte copied past the old end is one this copy wrote d places earlier,
\* so the source pattern of d bytes repeats
CopyMatch(out, d, len) ==
    out \o [j \in 1 .. len |-> out[Len(out) - d + 1 + ((j - 1) % d)]]

\* the match copy, then the literals packed into the instruction
DecCopy ==
    /\ pc = "copy"
    /\ outdata' = CopyMatch(outdata, dist, t)
    /\ minOut' = Min(minOut, Len(outdata) - dist + 1)
    /\ maxOut' = Max(maxOut, Len(outdata) + t)
    /\ IF trail = 0
       THEN /\ state' = 0
            /\ pc' = "tag"
            /\ UNCHANGED << t, nstate >>
       ELSE /\ t' = trail
            /\ nstate' = trail
            /\ pc' = "lit"
            /\ UNCHANGED state
    /\ UNCHANGED << ip, form, dist, trail, r, maxIn, lbSeen, eosShort >>
    /\ UNCHANGED << callVars, argVars, dres, codeVars >>

\* the end marker: the output must be complete and the input used up
DecEos ==
    /\ pc = "eos"
    /\ IF Len(outdata) < OutCap
       THEN /\ Fail(LZO_E_OUTPUT_NOT_CONSUMED)
            /\ eosShort' = (Len(outdata) < newlen)
       ELSE IF ip < InLen
       THEN /\ Fail(LZO_E_INPUT_NOT_CONSUMED)
            /\ UNCHANGED eosShort
       ELSE /\ Fail(LZO_E_OK)
            /\ UNCHANGED eosShort
    /\ UNCHANGED << decVars, maxIn, minOut, maxOut, lbSeen >>
    /\ UNCHANGED << callVars, argVars, dres, codeVars >>

\* decompress returns, lib.rs 119-124; newlen is an immutable local the
\* codec writes the produced length to through a cast pointer (lib.rs 116)
DecReturn ==
    /\ pc = "ret"
    /\ \E reload \in BOOLEAN :
          dres' = DecompressResult(r, ReadBack(reload, newlen, Len(outdata)),
                                   outdata)
    /\ pc' = "done"
    /\ UNCHANGED << callVars, argVars, decVars, r, ghostVars, codeVars >>

(***************************************************************************)
(* Error::from_code applied to a return code, and the two wrappers' result *)
(* for that return code (lib.rs 94-103, 119-124).                          *)
(***************************************************************************)
ApplyFromCode ==
    /\ pc = "start"
    /\ \E c \in Codes, c2 \in ListedCodes :
          /\ code' = c
          /\ kind' = from_code(c)
          /\ code2' = c2
          /\ kind2' = from_code(c2)
          /\ cprobe' = CompressResult(c, 0, 1, << >>)
          /\ dprobe' = DecompressResult(c, 0, << >>)
    /\ pc' = "coded"
    /\ UNCHANGED << callVars, argVars, decVars, r, dres, ghostVars >>

Next ==
    \/ CallCompress
    \/ DecompressStored
    \/ DecompressCorrupt
    \/ DecompressAny
    \/ DecFirst
    \/ DecTag
    \/ DecExt
    \/ DecLit
    \/ DecDist
    \/ DecCopy
    \/ DecEos
    \/ DecReturn
    \/ ApplyFromCode

Spec == Init /\ [][Next]_vars

(***************************************************************************)
(* Properties.                                                             *)
(***************************************************************************)
OverrunKinds == {"InputOverrun", "OutputOverrun", "LookbehindOverrun"}

\* C1: round trip.  When compress(B) returned Ok(C), decompress(C, len(B))
\* returns Ok(D) with len(D) = len(B) and D = B.
C1_RoundTrip ==
    (pc = "done" /\ mode = "full" /\ newlen = Len(src))
        => (dres.ok /\ Len(dres.data) = Len(src) /\ dres.data = src)

C1_Witness ==
    /\ pc = "done" /\ mode = "full" /\ newlen = Len(src)
    /\ src = Alice /\ dres.ok /\ dres.data = Alice

\* C2: whenever compress(B) returns Ok(C), len(C) < len(B); whenever the
\* stream the encoder wrote is not strictly shorter than B, compress returns
\* Err(NotCompressible).
C2_StrictlyShorter ==
    pc = "compressed"
        => /\ (cres.ok => Len(cres.data) < Len(src))
           /\ (Len(cstream) >= Len(src) => cres = Err("NotCompressible"))

\* C3: decompress(S, n) returns Ok(D) only if the decoder produced exactly n
\* bytes, and then len(D) = n; an end marker reached with the output cursor
\* below n yields Err(OutputNotConsumed).
C3_ExactLength ==
    pc = "done"
        => /\ (dres.ok => (Len(outdata) = newlen /\ Len(dres.data) = newlen))
           /\ (eosShort => dres = Err("OutputNotConsumed"))

C3_Witness ==
    /\ pc = "done" /\ eosShort /\ Len(outdata) > 0
    /\ dres = Err("OutputNotConsumed")

\* C4: in every state of the decoder, on any stream and any expected length,
\* the input cursor is within 0..len(S), the output cursor within 0..n, no
\* input index above len(S) and no output index outside 1..n has been read
\* or written, and a match copy is only pending once its source lies in the
\* output produced and its destination in the n-byte output.
C4_DecoderBounds ==
    /\ ip \in 0 .. Len(indata)
    /\ Len(outdata) \in 0 .. newlen
    /\ maxIn <= Len(indata)
    /\ minOut >= 1
    /\ maxOut <= newlen
    /\ (pc = "copy" => (dist \in 1 .. Len(outdata)
                          /\ Len(outdata) + t <= newlen))

\* an overlapping match copy has run on a damaged stream and filled the
\* output from its first byte to its last
C4_Witness ==
    /\ pc = "tag" /\ mode = "corrupt"
    /\ form \in {"M2", "M3"} /\ dist < t
    /\ minOut = 1 /\ maxOut = newlen /\ maxIn = ip

\* C5: when compress(B) returned Ok(C) and n < len(B), decompress(C, n)
\* returns Err(OutputOverrun).
C5_OutputTooSmall ==
    (pc = "done" /\ mode = "full" /\ newlen < Len(src))
        => dres = Err("OutputOverrun")

C5_Witness ==
    /\ pc = "done" /\ mode = "full"
    /\ src = ZeroRun /\ newlen = 128
    /\ dres = Err("OutputOverrun")

\* C6: when compress(B) returned Ok(C) and T is a proper prefix of C,
\* decompress(T, len(B)) reads no byte beyond T and returns an overrun
\* error, never Ok.
C6_Truncation ==
    mode = "prefix"
        => /\ maxIn <= Len(indata)
           /\ (pc = "done" => (~dres.ok /\ dres.err \in OverrunKinds))

C6_Witness ==
    /\ pc = "done" /\ mode = "prefix"
    /\ Len(outdata) > 0 /\ maxIn = Len(indata)
    /\ dres = Err("InputOverrun")

\* C7: once the decoder has parsed a match whose distance exceeds the output
\* cursor, it copies nothing, has read no position before the start of the
\* output, and decompress returns Err(LookbehindOverrun).
C7_Lookbehind ==
    lbSeen
        => /\ pc \in {"ret", "done"}
           /\ minOut >= 1
           /\ dist > Len(outdata)
           /\ (pc = "done" => dres = Err("LookbehindOverrun"))

C7_Witness ==
    /\ pc = "done" /\ lbSeen /\ Len(outdata) > 0
    /\ dres = Err("LookbehindOverrun")

\* C8: compress of an input of at most 3 bytes returns Err(NotCompressible);
\* the stream, with its run prefix and end marker, is longer than the input.
C8_SmallInput ==
    (pc = "compressed" /\ Len(src) <= 3)
        => (cres = Err("NotCompressible") /\ Len(cstream) > Len(src))

C8_Witness ==
    pc = "compressed" /\ src = Foo /\ cres = Err("NotCompressible")

\* C9: the stream the encoder writes, end marker included, is at most
\* len(B) + len(B)/16 + 64 + 3 bytes long, which is the capacity compress
\* allocates.
C9_WorstCase ==
    pc = "compressed"
        => /\ Len(cstream) <= Len(src) + Len(src) \div 16 + 64 + 3
           /\ Len(cstream) <= CompressOutCap(Len(src))

C9_Witness ==
    /\ pc = "compressed" /\ Len(src) = MaxInLen
    /\ Len(cstream) = Len(src) + 4

\* C10: from_code is total; the codes -1..-12 and -99 map to pairwise
\* distinct kinds, every other code to Error; a non-zero return code makes
\* compress and decompress return Err of that kind.
C10_FromCode ==
    pc = "coded"
        => /\ kind \in ErrorKinds
           /\ (code \notin ListedCodes => kind = "Error")
           /\ (code = -1 => kind = "Error")
           /\ (code = -3 => kind = "NotCompressible")
           /\ (code = -4 => kind = "InputOverrun")
           /\ (code = -5 => kind = "OutputOverrun")
           /\ (code = -6 => kind = "LookbehindOverrun")
           /\ (code = -8 => kind = "InputNotConsumed")
           /\ (code = -12 => kind = "OutputNotConsumed")
           /\ (code = -99 => kind = "InternalError")
           /\ ((code \in ListedCodes /\ code # code2) => kind # kind2)
           /\ (code # 0 => (cprobe = Err(kind) /\ dprobe = Err(kind)))

C10_Witness ==
    /\ pc = "coded" /\ code = -99 /\ kind = "InternalError"
    /\ code2 = -12 /\ kind2 = "OutputNotConsumed"
    /\ cprobe = Err("InternalError")

====
